---- MODULE Spec2Model ----
(***************************************************************************)
(* Daily technical-metrics calculation of the screener backend:            *)
(* DailyMetricsCalculator.calculate_metrics_for_date and the upsert into   *)
(* calculated_metrics, as a state machine.                                 *)
(*                                                                         *)
(* Numbers.  The code computes in float64; the model computes in fixed     *)
(* point.  Prices are integers scaled by 100 (two decimals); percentages   *)
(* and rounded values are scaled by 10000 (four decimals) unless the       *)
(* operator that computes them says otherwise.                             *)
(* NULL stands for Python None / SQL NULL and NAN for float NaN.           *)
(*                                                                         *)
(* Dates are day ordinals.  Every ordinal is a trading day unless a        *)
(* symbol's series skips it.                                               *)
(***************************************************************************)
EXTENDS Integers, Sequences, FiniteSets, TLC

VARIABLES
    ohlcv_daily,      \* table ohlcv_daily: symbol -> series profile (see Bar)
    securities,       \* table securities: the symbols with is_active = True
    store,            \* table calculated_metrics: the committed rows
    pc,               \* position of the request inside calculate_metrics_for_date
    target_date,      \* argument target_date
    symbols,          \* argument symbols (NULL_LIST for None), then the resolved list
    ohlcv_data,       \* the DataFrame returned by _fetch_ohlcv_data (its query)
    universe_metrics, \* result of _calculate_universe_metrics
    all_metrics,      \* list of per-symbol records
    i,                \* index of the per-symbol loop / of the upsert loop
    counts,           \* locals inserted, updated of _save_metrics_to_db
    session,          \* the request's SQLAlchemy session: pending and dirty objects
    result,           \* the result mapping being built
    stages,           \* history: the stages this run has gone through, in order
    store0,           \* history: the committed store when this run began
    last,             \* history: the last run that returned success (inputs, result)
    written,          \* history: keys written by committed runs since Init
    fault,            \* history: a database error or an injected exception struck this run
    raised,           \* history: an exception was raised inside the try block of this run
    runs              \* number of runs started

vars == <<ohlcv_daily, securities, store, pc, target_date, symbols, ohlcv_data,
          universe_metrics, all_metrics, i, counts, session, result, stages,
          store0, last, written, fault, raised, runs>>

(***************************************************************************)
(* Bounds of the model                                                     *)
(***************************************************************************)
MaxRuns == 2          \* requests served, one after the other
MaxListLen == 1       \* length of an explicit symbols list

Symbols == {"A", "B"}

NULL == -999999
NAN == -888888
NULL_LIST == <<"*">>  \* symbols = None

(***************************************************************************)
(* Program constants                                                       *)
(***************************************************************************)
MinHistory == 200         \* if target_idx < 200: return None
LookbackDays == 250       \* lookback_days = 250
McClellanDays == 40       \* if target_date_idx < 40
VolumeWindow == 50        \* if idx < 50 / idx - 50 : idx - 1
MonthBars == 21           \* periods['1m'] = 21
RsiPeriod == 14           \* _calc_rsi(..., period=14)

(***************************************************************************)
(* The calendar of the model: the two dates a request may ask for, chosen  *)
(* so that a series starting on day 1 has exactly 200 prior bars on the    *)
(* first of them, and the last day with bars.                              *)
(***************************************************************************)
FirstTarget == MinHistory + 1
Dates == {FirstTarget, FirstTarget + 1}
LastDay == FirstTarget + 99

(***************************************************************************)
(* OHLCV history.  A symbol's rows in ohlcv_daily are given by a profile:  *)
(* first (the first day with a bar; beyond LastDay for none), skip (a day  *)
(* without a bar, 0 for none), shape (the price path) and volnull (volume  *)
(* NULL on every day, as for indices).                                     *)
(***************************************************************************)
Profiles ==
    << [first |-> 1, skip |-> 0, shape |-> "up", volnull |-> FALSE],
       [first |-> 2, skip |-> 0, shape |-> "flat", volnull |-> FALSE],
       [first |-> 1, skip |-> FirstTarget, shape |-> "down", volnull |-> FALSE],
       [first |-> FirstTarget - 30, skip |-> 0, shape |-> "up", volnull |-> FALSE],
       [first |-> 1, skip |-> 0, shape |-> "zig", volnull |-> TRUE],
       [first |-> LastDay + 1, skip |-> 0, shape |-> "up", volnull |-> FALSE] >>

\* The histories of the model: symbol "A" takes a profile that comes no later
\* in Profiles than that of "B" (the other half is the same with the two
\* names exchanged).
Histories ==
    {[s \in Symbols |-> Profiles[IF s = "A" THEN ab[1] ELSE ab[2]]] :
        ab \in {x \in (1..Len(Profiles)) \X (1..Len(Profiles)) : x[1] <= x[2]}}

HasBar(p, d) == d >= p.first /\ d <= LastDay /\ d # p.skip

RECURSIVE RiseSeq(_, _)
\* n closes that rise by 1% a day (to the price step), the first being c
RiseSeq(c, n) ==
    IF n = 1 THEN <<c>>
    ELSE LET h == n \div 2
             left == RiseSeq(c, h)
         IN  left \o RiseSeq(left[h] + left[h] \div 100, n - h)

RiseSeries == RiseSeq(1000, LastDay)

\* The price paths.  Prices are in price steps (Numeric(15, 2): 0.01).
\*   up, down  a step up / down a day
\*   zig       100 and 102 in turn
\*   flat      the constant 100
\*   coil      the constant 100 with highs 3, 2 and 4 steps above it in turn
\*   peak      a step up a day until day 150, a step down a day after it
\*   rise*     +1% a day
\*   edge      constant, one jump on day FirstTarget - 13, then a fall that
\*             leaves 14 gains of 90002 and losses of 210005 at FirstTarget
Close(p, d) ==
    CASE p.shape = "up" -> 100 + d
      [] p.shape = "down" -> 600 - d
      [] p.shape \in {"flat", "coil"} -> 100
      [] p.shape = "peak" -> IF d <= 150 THEN 100 + d ELSE 400 - d
      [] p.shape \in {"rise", "risehi", "risewide"} -> RiseSeries[d]
      [] p.shape = "edge" ->
            IF d < FirstTarget - 13 THEN 130000
            ELSE IF d < FirstTarget
            THEN 220002 - 16154 * (d - (FirstTarget - 13))
            ELSE 9997
      [] OTHER -> 100 + 2 * (d % 2)

Open(p, d) ==
    CASE p.shape = "up" -> Close(p, d) - 1
      [] p.shape = "down" -> Close(p, d) + 1
      [] p.shape = "zig" -> 101
      [] OTHER -> Close(p, d)

\* how far the high lies above the higher of open and close
UpperWick(p, d) ==
    CASE p.shape \in {"up", "down", "zig"} -> 1
      [] p.shape = "risehi" -> (Close(p, d) * 25) \div 1000
      [] p.shape = "risewide" -> (Close(p, d) * 4) \div 100
      [] p.shape = "coil" -> <<3, 2, 4>>[(d % 3) + 1]
      [] OTHER -> 0

\* how far the low lies below the lower of open and close
LowerWick(p, d) == IF p.shape \in {"up", "down", "zig"} THEN 1 ELSE 0

Max2(a, b) == IF a >= b THEN a ELSE b
Min2(a, b) == IF a <= b THEN a ELSE b

\* One row of ohlcv_daily (OHLCVDaily): low <= open, close <= high.
Bar(s, p, d) ==
    LET o == Open(p, d)
        c == Close(p, d)
    IN  [symbol |-> s, date |-> d,
         open |-> o,
         high |-> Max2(o, c) + UpperWick(p, d),
         low |-> Min2(o, c) - LowerWick(p, d),
         close |-> c,
         volume |-> IF p.volnull THEN NULL ELSE 1000 + 10 * (d % 7)]

(***************************************************************************)
(* _fetch_ohlcv_data: the frame of the rows of the requested symbols with  *)
(* start_date <= date <= end_date, ordered by symbol and date.  The frame  *)
(* is kept as its query; FrameRows reads one symbol's rows out of it.      *)
(***************************************************************************)
SetOf(seq) == {seq[k] : k \in 1..Len(seq)}

fetch_ohlcv_data(syms, start_date, end_date) ==
    [symbols |-> SetOf(syms), start_date |-> start_date, end_date |-> end_date]

\* ohlcv_data[ohlcv_data['symbol'] == symbol], ascending by date
FrameRows(table, df, s) ==
    IF s \notin df.symbols THEN <<>>
    ELSE LET days == SelectSeq([d \in 1..LastDay |-> d],
                       LAMBDA d : /\ HasBar(table[s], d)
                                  /\ d >= df.start_date
                                  /\ d <= df.end_date)
         IN [k \in 1..Len(days) |-> Bar(s, table[s], days[k])]

\* the emptiness test made on the symbol list instead of the frame
FrameEmptyBySymbols(table, df) == df.symbols = {}

\* ohlcv_data.empty
FrameEmpty(table, df) ==
    \A s \in df.symbols :
        \A d \in 1..LastDay :
            ~(HasBar(table[s], d) /\ d >= df.start_date /\ d <= df.end_date)

\* ohlcv_data[ohlcv_data['date'] == d]
FrameDay(table, df, d) ==
    IF d < df.start_date \/ d > df.end_date THEN {}
    ELSE {Bar(s, table[s], d) : s \in {x \in df.symbols : HasBar(table[x], d)}}

\* sorted(ohlcv_data['date'].unique())
UniqueDates(table, df) ==
    SelectSeq([d \in 1..LastDay |-> d],
              LAMBDA d : /\ d >= df.start_date
                         /\ d <= df.end_date
                         /\ \E s \in df.symbols : HasBar(table[s], d))

\* target_date in symbol_data['date'].values
HasDate(df, d) == \E k \in 1..Len(df) : df[k].date = d

\* 0-based position of x in seq, -1 when absent
IndexOf(seq, x) ==
    LET hits == {k \in 1..Len(seq) : seq[k] = x}
    IN  IF hits = {} THEN -1
        ELSE (CHOOSE k \in hits : \A j \in hits : k <= j) - 1

\* round(x, n) of a value scaled by unit * 10^n, to the nearest
RoundTo(x, unit) == (2 * x + unit) \div (2 * unit)

\* Series.ewm(span, adjust=False).mean().iloc[-1], values scaled by 10000;
\* alpha = 2 / (span + 1) = 1 / den
RECURSIVE Ewm(_, _, _)
Ewm(xs, den, k) ==
    IF k = 1 THEN 10000 * xs[1]
    ELSE (10000 * xs[k] + (den - 1) * Ewm(xs, den, k - 1)) \div den

\* advances - declines of one day
AdvDecl(table, df, d) ==
    LET day_data == FrameDay(table, df, d)
        advances == Cardinality({b \in day_data : b.close >= b.open})
        declines == Cardinality({b \in day_data : b.close < b.open})
    IN  advances - declines

\* _calculate_universe_metrics; the McClellan values are scaled by 100
calculate_universe_metrics(table, df, tdate) ==
    LET target_data == FrameDay(table, df, tdate)
        universe_up == Cardinality({b \in target_data : b.close >= b.open})
        universe_down == Cardinality({b \in target_data : b.close < b.open})
        unique_dates == UniqueDates(table, df)
        target_date_idx == IndexOf(unique_dates, tdate)
        lo == Max2(0, target_date_idx - McClellanDays)
        ad_values == [k \in 1..(target_date_idx + 1 - lo) |->
                         AdvDecl(table, df, unique_dates[lo + k])]
        ema19 == Ewm(ad_values, 10, Len(ad_values))
        ema39 == Ewm(ad_values, 20, Len(ad_values))
        mcclellan_osc == ema19 - ema39
    IN  IF target_data = {}
        THEN [universe_up_count |-> 0, universe_down_count |-> 0,
              mcclellan_oscillator |-> 0, mcclellan_summation |-> 0]
        ELSE IF target_date_idx < McClellanDays
        THEN [universe_up_count |-> universe_up,
              universe_down_count |-> universe_down,
              mcclellan_oscillator |-> 0, mcclellan_summation |-> 0]
        ELSE [universe_up_count |-> universe_up,
              universe_down_count |-> universe_down,
              mcclellan_oscillator |-> RoundTo(mcclellan_osc, 100),
              mcclellan_summation |-> RoundTo(mcclellan_osc, 100)]

(***************************************************************************)
(* The per-symbol engine.  df is the symbol's ascending series and idx the *)
(* 0-based position of the target bar, so df.loc[k] is At(df, k).          *)
(***************************************************************************)
At(df, k) == df[k + 1]

Abs(x) == IF x < 0 THEN -x ELSE x

RECURSIVE Pow10(_)
Pow10(n) == IF n = 0 THEN 1 ELSE 10 * Pow10(n - 1)

RECURSIVE ScaledDiv(_, _, _)
\* a / c scaled by 10^n and rounded down (c > 0), by long division so that
\* no intermediate value leaves the 32-bit integers
ScaledDiv(a, c, n) ==
    IF n = 0 THEN a \div c
    ELSE (a \div c) * Pow10(n) + ScaledDiv((a % c) * 10, c, n - 1)

\* round(a / c, n) scaled by 10^n: to the nearest
RoundDiv(a, c, n) == (ScaledDiv(a, c, n + 1) + 5) \div 10

RECURSIVE Isqrt(_)
\* the integer square root
Isqrt(x) ==
    IF x < 2 THEN x
    ELSE LET small == 2 * Isqrt(x \div 4)
         IN  IF (small + 1) * (small + 1) > x THEN small ELSE small + 1

RECURSIVE SumOver(_, _, _)
\* the sum of f[k] for k in lo..hi
SumOver(f, lo, hi) ==
    IF lo > hi THEN 0
    ELSE IF lo = hi THEN f[lo]
    ELSE SumOver(f, lo, (lo + hi) \div 2) + SumOver(f, (lo + hi) \div 2 + 1, hi)

\* one entry of _calc_price_changes, in percent scaled by 10000
PctChange(df, idx, days) ==
    LET prev_idx == idx - days
        close == At(df, idx).close
        prev_close == At(df, prev_idx).close
    IN  IF prev_idx >= 0
        THEN (IF prev_close > 0
              THEN ScaledDiv(close - prev_close, prev_close, 6)
              ELSE 0)
        ELSE NULL

\* _calc_price_changes
calc_price_changes(df, idx) ==
    [change_1d_percent |-> PctChange(df, idx, 1),
     change_1w_percent |-> PctChange(df, idx, 5),
     change_1m_percent |-> PctChange(df, idx, MonthBars),
     change_3m_percent |-> PctChange(df, idx, 63),
     change_6m_percent |-> PctChange(df, idx, 126),
     change_1d_value |-> IF idx > 0
                         THEN At(df, idx).close - At(df, idx - 1).close
                         ELSE NULL]

\* _calc_atr, scaled by 10000
calc_atr(df, idx, period) ==
    LET tr == [k \in (idx - period + 1)..idx |->
                 LET prev_close == IF k > 0 THEN At(df, k - 1).close
                                   ELSE At(df, k).open
                 IN Max2(At(df, k).high - At(df, k).low,
                         Max2(Abs(At(df, k).high - prev_close),
                              Abs(At(df, k).low - prev_close)))]
    IN  IF idx < period THEN 0
        ELSE ScaledDiv(SumOver(tr, idx - period + 1, idx), period, 4)

\* _calc_adr, in percent scaled by 10000
calc_adr(df, idx, period) ==
    LET rg == [k \in (idx - period + 1)..idx |->
                 IF At(df, k).close > 0
                 THEN ((At(df, k).high - At(df, k).low) * 1000000)
                          \div At(df, k).close
                 ELSE 0]
    IN  IF idx < period THEN 0
        ELSE SumOver(rg, idx - period + 1, idx) \div period

\* _calc_volatility
calc_volatility(df, idx) ==
    LET atr_14 == calc_atr(df, idx, 14)
        close == At(df, idx).close
    IN  [atr_14 |-> IF atr_14 # 0 THEN atr_14 ELSE NULL,
         atr_percent |-> IF close > 0 /\ atr_14 # 0
                         THEN ScaledDiv(atr_14, close, 2) ELSE 0,
         adr_percent |-> calc_adr(df, idx, 20),
         today_range_percent |->
             IF close > 0
             THEN ((At(df, idx).high - At(df, idx).low) * 1000000) \div close
             ELSE 0]

\* Series.mean() of the volumes at positions lo..hi: NaN entries are skipped
\* and the mean of none is NaN
VolumeMean(df, lo, hi) ==
    LET present == {k \in lo..hi : At(df, k).volume # NULL}
        vol == [k \in lo..hi |-> IF k \in present THEN At(df, k).volume ELSE 0]
    IN  IF present = {} THEN NAN
        ELSE SumOver(vol, lo, hi) \div Cardinality(present)

\* int(volume_50d_avg) raises ValueError on NaN
VolumeMetricsRaises(df, idx) ==
    idx >= VolumeWindow /\ VolumeMean(df, idx - VolumeWindow, idx - 1) = NAN

\* _calc_volume_metrics (where it does not raise); rvol is scaled by 100
calc_volume_metrics(df, idx) ==
    LET volume_50d_avg == VolumeMean(df, idx - VolumeWindow, idx - 1)
        current_volume == At(df, idx).volume
        rvol == IF volume_50d_avg # NAN /\ volume_50d_avg > 0
                THEN (IF current_volume = NULL THEN NAN
                      ELSE (current_volume * 100) \div volume_50d_avg)
                ELSE 0
    IN  IF idx < VolumeWindow
        THEN [volume_50d_avg |-> NULL, rvol |-> NULL, is_volume_surge |-> 0]
        ELSE [volume_50d_avg |-> volume_50d_avg,
              rvol |-> rvol,
              is_volume_surge |-> IF rvol # NAN /\ rvol >= 150 THEN 1 ELSE 0]

\* _calc_rsi.  With g and l the sums of the 14 gains and losses, rsi =
\* 100 - 100 / (1 + g / l) = 100 * g / (g + l).  rsi_14 is round(rsi, 4),
\* scaled by 10000; the flags compare the unrounded rsi with 30 and 70.
calc_rsi(df, idx, period) ==
    LET ch == [k \in (idx - period + 1)..idx |->
                 At(df, k).close - At(df, k - 1).close]
        gains == [k \in DOMAIN ch |-> IF ch[k] > 0 THEN ch[k] ELSE 0]
        losses == [k \in DOMAIN ch |-> IF ch[k] < 0 THEN -ch[k] ELSE 0]
        g == SumOver(gains, idx - period + 1, idx)
        l == SumOver(losses, idx - period + 1, idx)
    IN  IF idx < period
        THEN [rsi_14 |-> NULL, rsi_oversold |-> 0, rsi_overbought |-> 0]
        ELSE IF l = 0
        THEN [rsi_14 |-> 1000000, rsi_oversold |-> 0, rsi_overbought |-> 1]
        ELSE [rsi_14 |-> RoundDiv(100 * g, g + l, 4),
              rsi_oversold |-> IF 10 * g < 3 * (g + l) THEN 1 ELSE 0,
              rsi_overbought |-> IF 10 * g > 7 * (g + l) THEN 1 ELSE 0]

\* Python truthiness of an optional number: None and 0 are false
Truthy(x) == x # NULL /\ x # 0

\* float(x) if x else None
FloatOrNone(x) == IF Truthy(x) THEN x ELSE NULL

RECURSIVE EwmFrom(_, _, _, _, _, _)
\* y[a..b] of the recursion y[t] = (1 - alpha) * y[t-1] + alpha * x[t] with
\* alpha = num / den, from y[a-1] = y0
EwmFrom(xs, num, den, y0, a, b) ==
    IF a = b THEN <<((den - num) * y0 + num * xs[a]) \div den>>
    ELSE LET m == (a + b) \div 2
             left == EwmFrom(xs, num, den, y0, a, m)
         IN  left \o EwmFrom(xs, num, den, left[Len(left)], m + 1, b)

\* Series.ewm(span, adjust=False).mean() of xs[1..k]: y[1] = x[1]
EwmSeq(xs, num, den, k) == EwmFrom(xs, num, den, xs[1], 1, k)

\* the closes at positions lo..hi, scaled by 100
ClosesOf(df, lo, hi) == [k \in 1..(hi - lo + 1) |-> 100 * At(df, lo + k - 1).close]

\* df.loc[max(0, idx - n):idx, 'close'].mean(), scaled by 100: the slice
\* takes both ends, n + 1 closes
Sma(df, idx, n) ==
    LET lo == Max2(0, idx - n)
        cl == [k \in lo..idx |-> At(df, k).close]
    IN  ScaledDiv(SumOver(cl, lo, idx), idx - lo + 1, 2)

\* (close - ma) / ma * 100, in percent scaled by 10000
Distance(close, ma) ==
    IF Truthy(ma) THEN ScaledDiv(100 * close - ma, ma, 6) ELSE NULL

\* the chain of is_stacked with >= in place of >
StackedNotStrict(close, ema_10, sma_20, sma_50, sma_100, sma_200) ==
    IF /\ \A x \in {ema_10, sma_20, sma_50, sma_100, sma_200} : Truthy(x)
       /\ 100 * close >= ema_10 /\ ema_10 >= sma_20 /\ sma_20 >= sma_50
       /\ sma_50 >= sma_100 /\ sma_100 >= sma_200
    THEN 1 ELSE 0

\* is_stacked of _calc_moving_averages (lines 441-443)
Stacked(close, ema_10, sma_20, sma_50, sma_100, sma_200) ==
    IF \A x \in {ema_10, sma_20, sma_50, sma_100, sma_200} : Truthy(x)
    THEN (IF /\ 100 * close > ema_10 /\ ema_10 > sma_20 /\ sma_20 > sma_50
             /\ sma_50 > sma_100 /\ sma_100 > sma_200
          THEN 1 ELSE 0)
    ELSE 0

\* _calc_moving_averages; averages scaled by 100
calc_moving_averages(df, idx) ==
    LET close == At(df, idx).close
        lo == Max2(0, idx - 10)
        ema_10 == IF idx >= 10
                  THEN EwmSeq(ClosesOf(df, lo, idx), 2, 11, idx - lo + 1)[idx - lo + 1]
                  ELSE NULL
        sma_20 == IF idx >= 20 THEN Sma(df, idx, 20) ELSE NULL
        sma_50 == IF idx >= 50 THEN Sma(df, idx, 50) ELSE NULL
        sma_100 == IF idx >= 100 THEN Sma(df, idx, 100) ELSE NULL
        sma_200 == IF idx >= 200 THEN Sma(df, idx, 200) ELSE NULL
    IN  [ema_10 |-> FloatOrNone(ema_10),
         sma_20 |-> FloatOrNone(sma_20),
         sma_50 |-> FloatOrNone(sma_50),
         sma_100 |-> FloatOrNone(sma_100),
         sma_200 |-> FloatOrNone(sma_200),
         distance_from_ema10_percent |-> FloatOrNone(Distance(close, ema_10)),
         distance_from_sma50_percent |-> FloatOrNone(Distance(close, sma_50)),
         distance_from_sma200_percent |-> FloatOrNone(Distance(close, sma_200)),
         is_ma_stacked |-> Stacked(close, ema_10, sma_20, sma_50, sma_100, sma_200)]

\* _calc_atr_extension; atr_extension_from_sma50 (in ATR units) and
\* lod_atr_percent are scaled by 100.  (close / sma_50 - 1) is taken to six
\* decimals and atr_14 / close likewise (at least one unit of the sixth).
calc_atr_extension(df, idx, metrics) ==
    LET close == At(df, idx).close
        low == At(df, idx).low
        sma_50 == metrics.sma_50
        atr_14 == metrics.atr_14
        atr_ext == IF Truthy(sma_50) /\ Truthy(atr_14) /\ close > 0
                   THEN (IF atr_14 > 0
                         THEN ScaledDiv(ScaledDiv(100 * close - sma_50, sma_50, 6),
                                        Max2(ScaledDiv(atr_14, close, 2), 1), 2)
                         ELSE 0)
                   ELSE NULL
        lod_atr_pct == IF Truthy(atr_14)
                       THEN (IF atr_14 > 0
                             THEN ScaledDiv(low - close, Max2(atr_14 \div 100, 1), 6)
                             ELSE 0)
                       ELSE NULL
    IN  [atr_extension_from_sma50 |-> FloatOrNone(atr_ext),
         lod_atr_percent |-> FloatOrNone(lod_atr_pct),
         is_lod_tight |-> IF Truthy(atr_14) /\ Abs(lod_atr_pct) < 6000
                          THEN 1 ELSE 0]

MinOf(S) == CHOOSE x \in S : \A y \in S : x <= y
HighestOf(S) == CHOOSE x \in S : \A y \in S : y <= x

\* _calc_darvas; darvas_position_percent is scaled by 10000
calc_darvas(df, idx) ==
    LET darvas_high == HighestOf({At(df, k).high : k \in (idx - 20)..idx})
        darvas_low == MinOf({At(df, k).low : k \in (idx - 20)..idx})
        close == At(df, idx).close
        range_span == darvas_high - darvas_low
    IN  IF idx < 20
        THEN [darvas_20d_high |-> NULL, darvas_20d_low |-> NULL,
              darvas_position_percent |-> NULL]
        ELSE [darvas_20d_high |-> darvas_high,
              darvas_20d_low |-> darvas_low,
              darvas_position_percent |->
                  IF range_span > 0
                  THEN ScaledDiv(close - darvas_low, range_span, 6)
                  ELSE 500000]

\* _calc_new_highs_lows
calc_new_highs_lows(df, idx) ==
    LET high_20d == HighestOf({At(df, k).high : k \in (idx - 20)..(idx - 1)})
        low_20d == MinOf({At(df, k).low : k \in (idx - 20)..(idx - 1)})
    IN  IF idx < 20
        THEN [is_new_20d_high |-> 0, is_new_20d_low |-> 0]
        ELSE [is_new_20d_high |-> IF At(df, idx).high >= high_20d THEN 1 ELSE 0,
              is_new_20d_low |-> IF At(df, idx).low <= low_20d THEN 1 ELSE 0]

\* _calc_vcp_score: the bars among the last four whose range is narrower
\* than that of the bar before
calc_vcp_score(df, idx) ==
    LET ranges == [k \in (idx - 4)..idx |-> At(df, k).high - At(df, k).low]
    IN  IF idx < 5 THEN 0
        ELSE Min2(Cardinality({k \in (idx - 3)..idx : ranges[k] < ranges[k - 1]}), 5)

\* the sub-stage of stage 2 with the ATR extension tested first
StageDetailAtrFirst(darvas_position, atr_ext) ==
    IF Truthy(atr_ext) /\ atr_ext >= 700 THEN "2C"
    ELSE IF Truthy(darvas_position) /\ darvas_position >= 900000 THEN "2B"
    ELSE "2A"

\* the sub-stage of stage 2 (lines 561-569)
StageDetail(darvas_position, atr_ext) ==
    IF Truthy(darvas_position) /\ darvas_position >= 900000 THEN "2B"
    ELSE IF Truthy(atr_ext) /\ atr_ext >= 700 THEN "2C"
    ELSE "2A"

\* _calc_stage with >= and <= in place of > and <
calc_stage_not_strict(df, idx, metrics) ==
    LET close == 100 * At(df, idx).close
        sma_50 == metrics.sma_50
        sma_200 == metrics.sma_200
    IN  IF Truthy(sma_50) /\ Truthy(sma_200)
        THEN (IF close >= sma_50 /\ close >= sma_200
              THEN [stage |-> 2,
                    stage_detail |-> StageDetail(metrics.darvas_position_percent,
                                                 metrics.atr_extension_from_sma50)]
              ELSE IF close <= sma_50 /\ close <= sma_200
              THEN [stage |-> 4, stage_detail |-> "4"]
              ELSE [stage |-> 3, stage_detail |-> "3"])
        ELSE [stage |-> 1, stage_detail |-> "1"]

\* _calc_stage deciding by SMA50 alone
calc_stage_sma50_only(df, idx, metrics) ==
    LET close == 100 * At(df, idx).close
        sma_50 == metrics.sma_50
        sma_200 == metrics.sma_200
    IN  IF Truthy(sma_50) /\ Truthy(sma_200)
        THEN (IF close > sma_50
              THEN [stage |-> 2,
                    stage_detail |-> StageDetail(metrics.darvas_position_percent,
                                                 metrics.atr_extension_from_sma50)]
              ELSE IF close < sma_50
              THEN [stage |-> 4, stage_detail |-> "4"]
              ELSE [stage |-> 3, stage_detail |-> "3"])
        ELSE [stage |-> 1, stage_detail |-> "1"]

\* _calc_stage
calc_stage(df, idx, metrics) ==
    LET close == 100 * At(df, idx).close
        sma_50 == metrics.sma_50
        sma_200 == metrics.sma_200
    IN  IF Truthy(sma_50) /\ Truthy(sma_200)
        THEN (IF close > sma_50 /\ close > sma_200
              THEN [stage |-> 2,
                    stage_detail |-> StageDetail(metrics.darvas_position_percent,
                                                 metrics.atr_extension_from_sma50)]
              ELSE IF close < sma_50 /\ close < sma_200
              THEN [stage |-> 4, stage_detail |-> "4"]
              ELSE [stage |-> 3, stage_detail |-> "3"])
        ELSE [stage |-> 1, stage_detail |-> "1"]

\* _calc_rrg_metrics; both values are rounded to two decimals, scaled by 100
calc_rrg_metrics(df, idx) ==
    LET close == At(df, idx).close
        close_1w == IF idx >= 5 THEN At(df, idx - 5).close ELSE close
    IN  IF idx < 10 THEN [rs_ratio |-> 10000, rs_momentum |-> 0]
        ELSE [rs_ratio |-> IF close_1w > 0
                           THEN RoundDiv(100 * close, close_1w, 2) ELSE 10000,
              rs_momentum |-> IF close_1w > 0
                              THEN RoundDiv(100 * (close - close_1w), close_1w, 2)
                              ELSE 0]

\* _calc_macd; the three values are scaled by 100.  e12 and e26 are the
\* EMAs of all closes up to each position, macd_values the last ten (or
\* fewer) differences, the signal line their EMA with span 9.
calc_macd(df, idx) ==
    LET closes == ClosesOf(df, 0, idx)
        e12 == EwmSeq(closes, 2, 13, idx + 1)
        e26 == EwmSeq(closes, 2, 27, idx + 1)
        macd_line == e12[idx + 1] - e26[idx + 1]
        lo == Max2(26, idx - 9)
        n == idx - lo + 1
        macd_values == [k \in 1..n |-> e12[lo + k] - e26[lo + k]]
        signal == EwmSeq(macd_values, 1, 5, n)
        signal_line == signal[n]
        prev_macd == IF n > 1 THEN macd_values[n - 1] ELSE macd_line
        prev_signal == IF n > 1 THEN signal[n - 1] ELSE signal_line
        crossing == idx > 35
    IN  IF idx < 26
        THEN [macd_line |-> NULL, macd_signal |-> NULL, macd_histogram |-> NULL,
              is_macd_bullish_cross |-> 0, is_macd_bearish_cross |-> 0]
        ELSE IF idx < 35
        THEN [macd_line |-> macd_line, macd_signal |-> NULL,
              macd_histogram |-> NULL,
              is_macd_bullish_cross |-> 0, is_macd_bearish_cross |-> 0]
        ELSE [macd_line |-> macd_line,
              macd_signal |-> signal_line,
              macd_histogram |-> macd_line - signal_line,
              is_macd_bullish_cross |->
                  IF crossing /\ prev_macd < prev_signal /\ macd_line > signal_line
                  THEN 1 ELSE 0,
              is_macd_bearish_cross |->
                  IF /\ crossing
                     /\ ~(prev_macd < prev_signal /\ macd_line > signal_line)
                     /\ prev_macd > prev_signal /\ macd_line < signal_line
                  THEN 1 ELSE 0]

RECURSIVE UnitFor(_)
\* the power of ten that brings m under 4000
UnitFor(m) == IF m <= 4000 THEN 1 ELSE 10 * UnitFor(m \div 10)

\* Series.std() (sample standard deviation, ddof = 1) of xs over lo..hi,
\* scaled by 100.  With n values and dev[k] = n * x[k] - sum, the deviation
\* is sqrt(sum of dev[k]^2 / (n - 1)) / n; the dev[k] are first brought to a
\* unit that keeps their squares within the integers.
Std(xs, lo, hi) ==
    LET n == hi - lo + 1
        sum == SumOver(xs, lo, hi)
        dev == [k \in lo..hi |-> Abs(n * xs[k] - sum)]
        unit == UnitFor(HighestOf({dev[k] : k \in lo..hi}))
        sq == [k \in lo..hi |-> (dev[k] \div unit) * (dev[k] \div unit)]
    IN  (10 * unit * Isqrt(ScaledDiv(SumOver(sq, lo, hi), n - 1, 2))) \div n

\* the bands with the deviation subtracted above and added below
BandsSwapped(middle, std_dev) ==
    [upper |-> middle - 2 * std_dev, lower |-> middle + 2 * std_dev]

\* upper = middle + num_std * std_dev, lower = middle - num_std * std_dev
Bands(middle, std_dev) ==
    [upper |-> middle + 2 * std_dev, lower |-> middle - 2 * std_dev]

\* _calc_bollinger_bands; the bands are scaled by 100 and the bandwidth, in
\* percent, by 10000
calc_bollinger_bands(df, idx, period) ==
    LET closes == [k \in (idx - period + 1)..idx |-> At(df, k).close]
        middle == ScaledDiv(SumOver(closes, idx - period + 1, idx), period, 2)
        std_dev == Std(closes, idx - period + 1, idx)
        bands == Bands(middle, std_dev)
        bandwidth_percent ==
            IF middle > 0
            THEN RoundDiv(bands.upper - bands.lower, middle, 6)
            ELSE 0
    IN  IF idx < period
        THEN [bb_upper |-> NULL, bb_middle |-> NULL, bb_lower |-> NULL,
              bb_bandwidth_percent |-> NULL, is_bb_squeeze |-> 0]
        ELSE [bb_upper |-> bands.upper,
              bb_middle |-> middle,
              bb_lower |-> bands.lower,
              bb_bandwidth_percent |-> bandwidth_percent,
              is_bb_squeeze |-> IF bandwidth_percent < 100000 THEN 1 ELSE 0]

\* _calc_adx; adx_14, di_plus and di_minus are in percent scaled by 10000.
\* The three means are taken over the last 14 bars, so that the ratios of
\* the means are the ratios of the sums.
calc_adx(df, idx, period) ==
    LET bars == (idx - period + 1)..idx
        prev_close(k) == IF k > 0 THEN At(df, k - 1).close ELSE At(df, k).open
        prev_high(k) == IF k > 0 THEN At(df, k - 1).high ELSE At(df, k).high
        prev_low(k) == IF k > 0 THEN At(df, k - 1).low ELSE At(df, k).low
        true_ranges == [k \in bars |->
                          Max2(At(df, k).high - At(df, k).low,
                               Max2(Abs(At(df, k).high - prev_close(k)),
                                    Abs(At(df, k).low - prev_close(k))))]
        up_move == [k \in bars |-> At(df, k).high - prev_high(k)]
        down_move == [k \in bars |-> prev_low(k) - At(df, k).low]
        plus_dms == [k \in bars |->
                       IF up_move[k] > down_move[k] /\ up_move[k] > 0
                       THEN up_move[k] ELSE 0]
        minus_dms == [k \in bars |->
                        IF down_move[k] > up_move[k] /\ down_move[k] > 0
                        THEN down_move[k] ELSE 0]
        atr == SumOver(true_ranges, idx - period + 1, idx)
        plus_dm_smooth == SumOver(plus_dms, idx - period + 1, idx)
        minus_dm_smooth == SumOver(minus_dms, idx - period + 1, idx)
        di_sum == plus_dm_smooth + minus_dm_smooth
        no_dx == atr <= 0 \/ di_sum = 0
    IN  IF idx < period * 2
        THEN [adx_14 |-> NULL, di_plus |-> NULL, di_minus |-> NULL,
              is_strong_trend |-> 0]
        ELSE [adx_14 |-> IF no_dx THEN 0
                         ELSE RoundDiv(100 * Abs(plus_dm_smooth - minus_dm_smooth),
                                       di_sum, 4),
              di_plus |-> IF atr > 0 THEN RoundDiv(100 * plus_dm_smooth, atr, 4)
                          ELSE 0,
              di_minus |-> IF atr > 0 THEN RoundDiv(100 * minus_dm_smooth, atr, 4)
                           ELSE 0,
              is_strong_trend |->
                  IF ~no_dx /\ 4 * Abs(plus_dm_smooth - minus_dm_smooth) > di_sum
                  THEN 1 ELSE 0]

\* target_idx of _calculate_symbol_metrics: the 0-based position of the
\* target date in the sorted series, -1 when it is absent
TargetIdx(df, tdate) ==
    LET hits == {k \in 1..Len(df) : df[k].date = tdate}
    IN  IF hits = {} THEN -1
        ELSE (CHOOSE k \in hits : \A j \in hits : k <= j) - 1

\* the outcomes of _calculate_symbol_metrics: None, an exception, a record
ReturnsNone == [kind |-> "none"]
Raises == [kind |-> "raise"]
Returns(metrics) == [kind |-> "record", metrics |-> metrics]

\* sections 1-9 of _calculate_symbol_metrics (lines 250-276): each section
\* adds its fields to the metrics gathered so far
MetricsBeforeStage(symbol, df, tdate, target_idx) ==
    LET current == At(df, target_idx)
        upto3 == calc_volume_metrics(df, target_idx)
                 @@ calc_volatility(df, target_idx)
                 @@ calc_price_changes(df, target_idx)
                 @@ [symbol |-> symbol, date |-> tdate]
        upto4 == calc_moving_averages(df, target_idx) @@ upto3
        upto5 == calc_atr_extension(df, target_idx, upto4) @@ upto4
    IN  [orh_proxy |-> current.high,
         is_m30_reclaim |-> IF 100 * current.close > 99 * current.high
                            THEN 1 ELSE 0,
         vcp_score |-> calc_vcp_score(df, target_idx)]
        @@ calc_new_highs_lows(df, target_idx)
        @@ calc_darvas(df, target_idx)
        @@ upto5

\* _calculate_symbol_metrics
calculate_symbol_metrics(symbol, df, tdate, umetrics) ==
    LET target_idx == TargetIdx(df, tdate)
        current == At(df, target_idx)
        upto9 == MetricsBeforeStage(symbol, df, tdate, target_idx)
    IN  IF target_idx = -1 THEN ReturnsNone
        ELSE IF target_idx < MinHistory THEN ReturnsNone
        ELSE IF VolumeMetricsRaises(df, target_idx) THEN Raises
        ELSE Returns(
            [rs_percentile |-> 5000, vars_score |-> 0, varw_score |-> 0]
            @@ calc_adx(df, target_idx, 14)
            @@ calc_bollinger_bands(df, target_idx, 20)
            @@ calc_macd(df, target_idx)
            @@ calc_rsi(df, target_idx, RsiPeriod)
            @@ [is_green_candle |->
                   IF current.close >= current.open THEN 1 ELSE 0]
            @@ calc_rrg_metrics(df, target_idx)
            @@ umetrics
            @@ calc_stage(df, target_idx, upto9)
            @@ upto9)

(***************************************************************************)
(* _calculate_rs_percentiles.  rs_percentile, vars_score and varw_score    *)
(* are scaled by 100.                                                      *)
(***************************************************************************)
MaxOf(S) == CHOOSE x \in S : \A y \in S : y <= x

\* positions of all_metrics that enter changes_1m
Ranked(ms) == {j \in 1..Len(ms) : ms[j].change_1m_percent # NULL}

\* position of entry j after a stable descending sort of changes_1m
RankOfDescending(ms, j) ==
    Cardinality({k \in Ranked(ms) :
        \/ ms[k].change_1m_percent > ms[j].change_1m_percent
        \/ (ms[k].change_1m_percent = ms[j].change_1m_percent /\ k < j)})

\* position of entry j after the stable ascending sort of changes_1m
RankOf(ms, j) ==
    Cardinality({k \in Ranked(ms) :
        \/ ms[k].change_1m_percent < ms[j].change_1m_percent
        \/ (ms[k].change_1m_percent = ms[j].change_1m_percent /\ k < j)})

\* the placeholder of the engine in place of the percentile
PercentileOfPlaceholder(ms, s) == 500000

\* percentile_map[symbol], scaled by 10000: the entry of a symbol that is
\* sorted last is the one that stays in the map
PercentileOf(ms, s) ==
    LET total == Cardinality(Ranked(ms))
        rank == MaxOf({RankOf(ms, j) : j \in {k \in Ranked(ms) : ms[k].symbol = s}})
    IN  IF total > 1 THEN (rank * 1000000) \div (total - 1) ELSE 500000

calculate_rs_percentiles(ms) ==
    IF Ranked(ms) = {} THEN ms
    ELSE [j \in 1..Len(ms) |->
            IF \E k \in Ranked(ms) : ms[k].symbol = ms[j].symbol
            THEN LET rs_percentile == PercentileOf(ms, ms[j].symbol)
                     adr_percent == ms[j].adr_percent
                 IN  IF adr_percent # NULL /\ adr_percent > 0
                     THEN [ms[j] EXCEPT
                             !.rs_percentile = RoundTo(rs_percentile, 100),
                             !.vars_score = (rs_percentile * 100) \div adr_percent,
                             !.varw_score = ((1000000 - rs_percentile) * 100)
                                                \div adr_percent]
                     ELSE [ms[j] EXCEPT
                             !.rs_percentile = RoundTo(rs_percentile, 100),
                             !.vars_score = 0,
                             !.varw_score = 0]
            ELSE ms[j]]

(***************************************************************************)
(* The calculated_metrics table and the session.                           *)
(***************************************************************************)
\* the columns of the CalculatedMetrics entity
MappedColumns ==
    {"id", "symbol", "date",
     "change_1d_percent", "change_1d_value", "change_1w_percent",
     "change_1m_percent", "change_3m_percent", "change_6m_percent",
     "rs_percentile", "vars_score", "varw_score",
     "atr_14", "atr_percent", "adr_percent", "today_range_percent",
     "volume_50d_avg", "rvol", "is_volume_surge",
     "ema_10", "sma_20", "sma_50", "sma_100", "sma_200",
     "distance_from_ema10_percent", "distance_from_sma50_percent",
     "distance_from_sma200_percent", "is_ma_stacked",
     "atr_extension_from_sma50", "lod_atr_percent", "is_lod_tight",
     "darvas_20d_high", "darvas_20d_low", "darvas_position_percent",
     "is_new_20d_high", "is_new_20d_low", "orh_proxy", "is_m30_reclaim",
     "vcp_score", "stage", "stage_detail",
     "universe_up_count", "universe_down_count",
     "mcclellan_oscillator", "mcclellan_summation",
     "rs_ratio", "rs_momentum", "is_green_candle",
     "created_at", "updated_at"}

\* the field names of a record of the engine
RecordFields ==
    {"symbol", "date",
     "change_1d_percent", "change_1d_value", "change_1w_percent",
     "change_1m_percent", "change_3m_percent", "change_6m_percent",
     "atr_14", "atr_percent", "adr_percent", "today_range_percent",
     "volume_50d_avg", "rvol", "is_volume_surge",
     "ema_10", "sma_20", "sma_50", "sma_100", "sma_200",
     "distance_from_ema10_percent", "distance_from_sma50_percent",
     "distance_from_sma200_percent", "is_ma_stacked",
     "atr_extension_from_sma50", "lod_atr_percent", "is_lod_tight",
     "darvas_20d_high", "darvas_20d_low", "darvas_position_percent",
     "is_new_20d_high", "is_new_20d_low", "orh_proxy", "is_m30_reclaim",
     "vcp_score", "stage", "stage_detail",
     "universe_up_count", "universe_down_count",
     "mcclellan_oscillator", "mcclellan_summation",
     "rs_ratio", "rs_momentum", "is_green_candle",
     "rsi_14", "rsi_oversold", "rsi_overbought",
     "macd_line", "macd_signal", "macd_histogram",
     "is_macd_bullish_cross", "is_macd_bearish_cross",
     "bb_upper", "bb_middle", "bb_lower", "bb_bandwidth_percent",
     "is_bb_squeeze",
     "adx_14", "di_plus", "di_minus", "is_strong_trend",
     "rs_percentile", "vars_score", "varw_score"}

\* the columns a stored row carries in the model
RowColumns == MappedColumns \cap RecordFields

KeyOf(r) == <<r.symbol, r.date>>
Keys(rows) == {KeyOf(r) : r \in rows}

\* a row that was in the table before the first request: every indicator NULL
LegacyRow(s, d) ==
    [c \in RowColumns |-> IF c = "symbol" THEN s ELSE IF c = "date" THEN d ELSE NULL]

\* CalculatedMetrics(**metrics): the declarative constructor raises TypeError
\* for a keyword that is no attribute of the class
ConstructorRaises(rec) == ~(DOMAIN rec \subseteq MappedColumns)

\* the row of CalculatedMetrics(**metrics)
NewRow(rec) == [c \in RowColumns |-> rec[c]]

\* setattr(existing, key, value) for every key but symbol and date: a key
\* that is no column only sets a plain attribute of the object
UpdateRow(existing, rec) ==
    [c \in RowColumns |->
        IF c \in DOMAIN rec /\ c \notin {"symbol", "date"} THEN rec[c]
        ELSE existing[c]]

\* the object the existence query returns for a key of the table: the
\* session's identity map hands back the object it already holds
Loaded(rows, sess, key) ==
    IF \E r \in sess.dirty : KeyOf(r) = key
    THEN CHOOSE r \in sess.dirty : KeyOf(r) = key
    ELSE CHOOSE r \in rows : KeyOf(r) = key

\* setattr on the loaded object: the session holds the modified object
MarkDirty(sess, row) ==
    [sess EXCEPT !.dirty = {r \in @ : KeyOf(r) # KeyOf(row)} \cup {row}]

\* uq_metrics_symbol_date, checked when the pending rows are flushed
UniqueViolation(rows, sess) ==
    \/ \E k \in 1..Len(sess.new) : KeyOf(sess.new[k]) \in Keys(rows)
    \/ \E k, l \in 1..Len(sess.new) :
          k # l /\ KeyOf(sess.new[k]) = KeyOf(sess.new[l])

\* an update that leaves the replaced row in the table
FlushedKeepingOld(rows, sess) == rows \cup sess.dirty \cup SetOf(sess.new)

\* a flush that replaces the rows of the written dates by the session's rows
FlushedDroppingStale(rows, sess) ==
    {r \in rows : \A w \in sess.dirty \cup SetOf(sess.new) : r.date # w.date}
        \cup sess.dirty \cup SetOf(sess.new)

\* the table after a successful flush and COMMIT
Flushed(rows, sess) ==
    {r \in rows : KeyOf(r) \notin Keys(sess.dirty)}
        \cup sess.dirty \cup SetOf(sess.new)

\* a session that commits each flushed statement on its own
RolledBackNewOnly(rows, sess) ==
    {r \in rows : KeyOf(r) \notin Keys(sess.dirty)} \cup sess.dirty

\* the table after a flush or COMMIT that raised: the session was made with
\* autocommit=False, so the transaction is rolled back as a whole
RolledBack(rows, sess) == rows

EmptySession == [new |-> <<>>, dirty |-> {}]

\* the update counted as an insert
CountUpdatedAsInserted(c) == [c EXCEPT !.inserted = @ + 1]

\* updated += 1
CountUpdated(c) == [c EXCEPT !.updated = @ + 1]

\* inserted += 1
CountInserted(c) == [c EXCEPT !.inserted = @ + 1]

(***************************************************************************)
(* The request: calculate_daily_metrics -> calculate_metrics_for_date.     *)
(***************************************************************************)
NoRun == [n |-> 0]

\* the lists a caller may pass as symbols
SymbolLists == UNION {[1..n -> Symbols] : n \in 0..MaxListLen}

\* the orders in which the securities query may return a set of symbols
Orderings(S) ==
    {f \in [1..Cardinality(S) -> S] : \A k, l \in DOMAIN f : k # l => f[k] # f[l]}

Error(kind, s) == [kind |-> kind, symbol |-> s]

\* str(target_date)
Str(d) == <<"str", d>>

\* the result mapping created before the try block
NewResult(tdate) ==
    [success |-> FALSE, target_date |-> Str(tdate), records_inserted |-> 0,
     records_updated |-> 0, errors |-> <<>>]

\* no handler: the exception leaves calculate_metrics_for_date
ExceptReraise == "raised"

\* where control goes when a statement of the try block raises: the
\* handler appends to errors (Failed) and falls through to return result
Except == "return"

\* except Exception as e: result["errors"].append(...)
Failed(res) == [res EXCEPT !.errors = Append(@, Error("failed", ""))]

\* success only when no symbol was reported
SucceededIfNoErrors(res, c) ==
    [res EXCEPT !.records_inserted = c.inserted,
                !.records_updated = c.updated,
                !.success = (res.errors = <<>>)]

\* lines 126-128: the counts and success = True
Succeeded(res, c) ==
    [res EXCEPT !.records_inserted = c.inserted,
                !.records_updated = c.updated,
                !.success = TRUE]

Init ==
    /\ ohlcv_daily \in Histories
    /\ securities \in {{}, Symbols}
    /\ \E S \in SUBSET Symbols :
          store = {LegacyRow(s, d) : s \in S, d \in Dates}
    /\ pc = "idle"
    /\ target_date = NULL
    /\ symbols = <<>>
    /\ ohlcv_data = fetch_ohlcv_data(<<>>, 0, 0)
    /\ universe_metrics = NULL
    /\ all_metrics = <<>>
    /\ i = 0
    /\ counts = [inserted |-> 0, updated |-> 0]
    /\ session = EmptySession
    /\ result = NULL
    /\ stages = <<>>
    /\ store0 = store
    /\ last = NoRun
    /\ written = {}
    /\ fault = FALSE
    /\ raised = FALSE
    /\ runs = 0

\* lines 67-83: a request arrives; the result mapping is created and the
\* universe is resolved.  The securities query, made when symbols is None,
\* may fail (db_error).
Start(tdate, syms, db_error) ==
    /\ pc = "idle"
    /\ runs < MaxRuns
    /\ runs' = runs + 1
    /\ target_date' = tdate
    /\ db_error => syms = NULL_LIST
    /\ IF db_error
       THEN /\ symbols' = <<>>
            /\ result' = Failed(NewResult(tdate))
            /\ pc' = Except
       ELSE \E resolved \in (IF syms = NULL_LIST THEN Orderings(securities) ELSE {syms}) :
               /\ symbols' = resolved
               /\ IF resolved = <<>>
                  THEN /\ result' = [NewResult(tdate) EXCEPT
                                       !.errors = <<Error("no_active", "")>>]
                       /\ pc' = "return"
                  ELSE /\ result' = NewResult(tdate)
                       /\ pc' = "fetch"
    /\ stages' = <<>>
    /\ store0' = store
    /\ all_metrics' = <<>>
    /\ universe_metrics' = NULL
    /\ i' = 0
    /\ counts' = [inserted |-> 0, updated |-> 0]
    /\ ohlcv_data' = fetch_ohlcv_data(<<>>, 0, 0)
    /\ fault' = db_error
    /\ raised' = db_error
    /\ UNCHANGED <<ohlcv_daily, securities, store, session, last, written>>

\* lines 87-95: the bulk load; its query may fail (db_error)
Fetch(db_error) ==
    /\ pc = "fetch"
    /\ stages' = Append(stages, "fetch")
    /\ IF db_error
       THEN /\ result' = Failed(result)
            /\ pc' = Except
            /\ UNCHANGED ohlcv_data
       ELSE \E df \in {fetch_ohlcv_data(
                          symbols, target_date - (LookbackDays * 3) \div 2,
                          target_date)} :
               /\ ohlcv_data' = df
               /\ IF FrameEmpty(ohlcv_daily, df)
                  THEN /\ result' = [result EXCEPT
                                       !.errors = Append(@, Error("no_ohlcv", ""))]
                       /\ pc' = "return"
                  ELSE /\ result' = result
                       /\ pc' = "universe"
    /\ fault' = db_error
    /\ raised' = db_error
    /\ UNCHANGED <<ohlcv_daily, securities, store, target_date, symbols,
                   universe_metrics, all_metrics, i, counts, session, store0,
                   last, written, runs>>

\* lines 98-99: the breadth / McClellan pass; exc stands for an exception
\* raised inside it
Universe(exc) ==
    /\ pc = "universe"
    /\ all_metrics' = <<>>
    /\ stages' = Append(stages, "universe")
    /\ i' = 1
    /\ IF exc
       THEN /\ result' = Failed(result)
            /\ pc' = Except
            /\ UNCHANGED universe_metrics
       ELSE /\ universe_metrics' =
                  calculate_universe_metrics(ohlcv_daily, ohlcv_data, target_date)
            /\ pc' = "symbols"
            /\ UNCHANGED result
    /\ fault' = exc
    /\ raised' = exc
    /\ UNCHANGED <<ohlcv_daily, securities, store, target_date, symbols,
                   ohlcv_data, counts, session, store0, last, written, runs>>

\* the loop left after its first iteration
AfterSymbolBreak(k) == "percentiles"

\* where the per-symbol loop goes after iteration k
AfterSymbol(k) == IF k < Len(symbols) THEN "symbols" ELSE "percentiles"

\* lines 101-117: one iteration of the per-symbol loop
SymbolStep ==
    /\ pc = "symbols"
    /\ \E symbol_data \in {FrameRows(ohlcv_daily, ohlcv_data, symbols[i])} :
          IF symbol_data = <<>> \/ ~HasDate(symbol_data, target_date)
          THEN /\ result' = [result EXCEPT
                               !.errors = Append(@, Error("no_data", symbols[i]))]
               /\ pc' = AfterSymbol(i)
               /\ UNCHANGED <<all_metrics, raised>>
          ELSE \E metrics \in {calculate_symbol_metrics(
                                   symbols[i], symbol_data, target_date,
                                   universe_metrics)} :
                  IF metrics = Raises
                  THEN /\ result' = Failed(result)
                       /\ pc' = Except
                       /\ raised' = TRUE
                       /\ UNCHANGED all_metrics
                  ELSE IF metrics = ReturnsNone
                  THEN /\ pc' = AfterSymbol(i)
                       /\ UNCHANGED <<all_metrics, result, raised>>
                  ELSE /\ all_metrics' = Append(all_metrics, metrics.metrics)
                       /\ pc' = AfterSymbol(i)
                       /\ UNCHANGED <<result, raised>>
    /\ i' = i + 1
    /\ stages' = Append(stages, "symbol")
    /\ UNCHANGED <<ohlcv_daily, securities, store, target_date, symbols,
                   ohlcv_data, universe_metrics, counts, session, store0, last,
                   written, fault, runs>>

\* lines 119-124: the percentile pass, then the decision to persist; exc
\* stands for an exception raised inside the pass
Percentiles(exc) ==
    /\ pc = "percentiles"
    /\ exc => all_metrics # <<>>
    /\ IF exc
       THEN /\ result' = Failed(result)
            /\ stages' = Append(stages, "percentiles")
            /\ pc' = Except
            /\ UNCHANGED all_metrics
       ELSE IF all_metrics # <<>>
       THEN /\ all_metrics' = calculate_rs_percentiles(all_metrics)
            /\ stages' = Append(stages, "percentiles")
            /\ pc' = "save"
            /\ UNCHANGED result
       ELSE /\ pc' = "return"
            /\ UNCHANGED <<all_metrics, stages, result>>
    /\ i' = 1
    /\ counts' = [inserted |-> 0, updated |-> 0]
    /\ fault' = exc
    /\ raised' = exc
    /\ UNCHANGED <<ohlcv_daily, securities, store, target_date, symbols,
                   ohlcv_data, universe_metrics, session, store0, last,
                   written, runs>>

\* lines 925-942: one iteration of the upsert loop.  The existence query may
\* fail (db_error); the session does not autoflush, so it sees the table's
\* rows and not the pending ones.
SaveRecord(db_error) ==
    /\ pc = "save"
    /\ LET metrics == all_metrics[i]
           key == <<metrics.symbol, target_date>>
       IN  IF db_error
           THEN /\ result' = Failed(result)
                /\ pc' = Except
                /\ raised' = TRUE
                /\ UNCHANGED <<session, counts>>
           ELSE IF key \in Keys(store)
           THEN /\ session' = MarkDirty(session,
                                 UpdateRow(Loaded(store, session, key), metrics))
                /\ counts' = CountUpdated(counts)
                /\ pc' = IF i < Len(all_metrics) THEN "save" ELSE "commit"
                /\ UNCHANGED <<result, raised>>
           ELSE IF ConstructorRaises(metrics)
           THEN /\ result' = Failed(result)
                /\ pc' = Except
                /\ raised' = TRUE
                /\ UNCHANGED <<session, counts>>
           ELSE /\ session' = [session EXCEPT !.new = Append(@, NewRow(metrics))]
                /\ counts' = CountInserted(counts)
                /\ pc' = IF i < Len(all_metrics) THEN "save" ELSE "commit"
                /\ UNCHANGED <<result, raised>>
    /\ i' = i + 1
    /\ fault' = db_error
    /\ stages' = Append(stages, "save")
    /\ UNCHANGED <<ohlcv_daily, securities, store, target_date, symbols,
                   ohlcv_data, universe_metrics, all_metrics, store0, last,
                   written, runs>>

\* lines 944-945 and 126-128: flush and COMMIT, then the counts and
\* success = True.  The commit may fail (db_error) and fails on a violation
\* of the unique constraint; the transaction is then rolled back.
Commit(db_error) ==
    /\ pc = "commit"
    /\ IF db_error \/ UniqueViolation(store, session)
       THEN /\ result' = Failed(result)
            /\ store' = RolledBack(store, session)
            /\ stages' = Append(stages, "rollback")
            /\ pc' = Except
            /\ raised' = TRUE
            /\ UNCHANGED written
       ELSE /\ store' = Flushed(store, session)
            /\ written' = written \cup Keys(session.dirty)
                              \cup Keys(SetOf(session.new))
            /\ stages' = Append(stages, "commit")
            /\ result' = Succeeded(result, counts)
            /\ pc' = "return"
            /\ UNCHANGED raised
    /\ session' = EmptySession
    /\ fault' = db_error
    /\ UNCHANGED <<ohlcv_daily, securities, target_date, symbols, ohlcv_data,
                   universe_metrics, all_metrics, i, counts, store0, last, runs>>

\* line 133 and get_db: the result is returned and the session is closed,
\* which discards what it still holds
Return ==
    /\ pc = "return"
    /\ session' = EmptySession
    /\ last' = IF result.success
               THEN [n |-> runs, target_date |-> target_date,
                     symbols |-> symbols, result |-> result]
               ELSE last
    /\ pc' = "idle"
    /\ target_date' = NULL
    /\ symbols' = <<>>
    /\ ohlcv_data' = fetch_ohlcv_data(<<>>, 0, 0)
    /\ universe_metrics' = NULL
    /\ all_metrics' = <<>>
    /\ i' = 0
    /\ counts' = [inserted |-> 0, updated |-> 0]
    /\ result' = NULL
    /\ stages' = <<>>
    /\ store0' = store
    /\ fault' = FALSE
    /\ raised' = FALSE
    /\ UNCHANGED <<ohlcv_daily, securities, store, written, runs>>

Next ==
    \/ \E tdate \in Dates, syms \in SymbolLists \cup {NULL_LIST}, db_error \in BOOLEAN :
          Start(tdate, syms, db_error)
    \/ \E db_error \in BOOLEAN : Fetch(db_error)
    \/ \E exc \in BOOLEAN : Universe(exc)
    \/ SymbolStep
    \/ \E exc \in BOOLEAN : Percentiles(exc)
    \/ \E db_error \in BOOLEAN : SaveRecord(db_error)
    \/ \E db_error \in BOOLEAN : Commit(db_error)
    \/ Return

Spec == Init /\ [][Next]_vars

(***************************************************************************)
(* The request with an explicit list that names one symbol twice: the same *)
(* steps as in Spec, the symbols argument drawn from RepeatedLists.        *)
(***************************************************************************)
RepeatedLists == {<<s, s>> : s \in Symbols}

RepeatNext ==
    \/ \E tdate \in Dates, syms \in RepeatedLists : Start(tdate, syms, FALSE)
    \/ \E db_error \in BOOLEAN : Fetch(db_error)
    \/ \E exc \in BOOLEAN : Universe(exc)
    \/ SymbolStep
    \/ \E exc \in BOOLEAN : Percentiles(exc)
    \/ \E db_error \in BOOLEAN : SaveRecord(db_error)
    \/ \E db_error \in BOOLEAN : Commit(db_error)
    \/ Return

RepeatSpec == Init /\ [][RepeatNext]_vars

(***************************************************************************)
(* Two invocations of calculate_metrics_for_date for one target date, each *)
(* with its own session, on one database.  In this specification the       *)
(* locals of the request (pc, symbols, ohlcv_data, universe_metrics,       *)
(* all_metrics, i, counts, session, result, stages, raised) are functions  *)
(* of the invocation; runs counts the attempts of each invocation, fault   *)
(* tells whether its previous attempt failed inside _save_metrics_to_db,   *)
(* and written holds the rows its present attempt has committed.  The      *)
(* statements before _save_metrics_to_db only read ohlcv_daily and         *)
(* securities, which no invocation writes, and are taken in one step.  A   *)
(* query sees the rows committed so far (READ COMMITTED) and the objects   *)
(* of its own session; db.commit() flushes and commits in one step.        *)
(***************************************************************************)
Invocations == {1, 2}

\* the symbol lists of the two invocations: explicit lists or the active
\* securities (symbols = None), with a symbol in common
OverlappingLists ==
    LET lists == (SymbolLists \ {<<>>}) \cup Orderings(Symbols)
    IN  {f \in [Invocations -> lists] : SetOf(f[1]) \cap SetOf(f[2]) # {}}

\* lines 116-117 and the way out by an exception: what the outcome of the
\* engine adds to acc (the errors and the records gathered so far, raised)
WithOutcome(acc, metrics) ==
    IF metrics = Raises THEN [acc EXCEPT !.raised = TRUE]
    ELSE IF metrics = ReturnsNone THEN acc
    ELSE [acc EXCEPT !.records = Append(@, metrics.metrics)]

\* lines 104-114: the symbol's rows are tested and handed to the engine
WithSymbolData(df, umetrics, symbol, symbol_data, acc) ==
    IF symbol_data = <<>> \/ ~HasDate(symbol_data, df.end_date)
    THEN [acc EXCEPT !.errors = Append(@, Error("no_data", symbol))]
    ELSE WithOutcome(acc, calculate_symbol_metrics(
                              symbol, symbol_data, df.end_date, umetrics))

RECURSIVE SymbolLoop(_, _, _, _, _, _)
\* lines 101-117 from iteration k on: an exception leaves the loop
SymbolLoop(table, df, umetrics, syms, k, acc) ==
    IF k > Len(syms) \/ acc.raised THEN acc
    ELSE SymbolLoop(table, df, umetrics, syms, k + 1,
                    WithSymbolData(df, umetrics, syms[k],
                                   FrameRows(table, df, syms[k]), acc))

\* lines 119-121 and the except block: the outcome of the statements before
\* _save_metrics_to_db, given what the loop has gathered
WithLooped(df, umetrics, looped) ==
    IF looped.raised
    THEN [df |-> df, umetrics |-> umetrics, raised |-> TRUE, records |-> <<>>,
          errors |-> Append(looped.errors, Error("failed", ""))]
    ELSE [df |-> df, umetrics |-> umetrics, raised |-> FALSE,
          records |-> IF looped.records # <<>>
                      THEN calculate_rs_percentiles(looped.records)
                      ELSE <<>>,
          errors |-> looped.errors]

\* lines 98-117: the breadth values, then the per-symbol loop
WithBreadth(table, syms, df, umetrics) ==
    WithLooped(df, umetrics,
               SymbolLoop(table, df, umetrics, syms, 1,
                          [errors |-> <<>>, records |-> <<>>, raised |-> FALSE]))

\* lines 92-99: the frame and its emptiness test
WithFrame(table, syms, df) ==
    IF FrameEmpty(table, df)
    THEN [df |-> df, umetrics |-> NULL, raised |-> FALSE, records |-> <<>>,
          errors |-> <<Error("no_ohlcv", "")>>]
    ELSE WithBreadth(table, syms, df,
                     calculate_universe_metrics(table, df, df.end_date))

\* lines 87-121 for a non-empty symbol list: the frame, the breadth values,
\* the per-symbol loop and the percentile pass
ComputeRecords(table, syms, tdate) ==
    WithFrame(table, syms,
              fetch_ohlcv_data(syms, tdate - (LookbackDays * 3) \div 2, tdate))

ConcInit ==
    /\ ohlcv_daily \in Histories
    /\ securities = Symbols
    /\ \E S \in SUBSET Symbols :
          store = {LegacyRow(s, d) : s \in S, d \in Dates}
    /\ target_date \in Dates
    /\ symbols \in OverlappingLists
    /\ pc = [p \in Invocations |-> "compute"]
    /\ ohlcv_data = [p \in Invocations |-> fetch_ohlcv_data(<<>>, 0, 0)]
    /\ universe_metrics = [p \in Invocations |-> NULL]
    /\ all_metrics = [p \in Invocations |-> <<>>]
    /\ i = [p \in Invocations |-> 0]
    /\ counts = [p \in Invocations |-> [inserted |-> 0, updated |-> 0]]
    /\ session = [p \in Invocations |-> EmptySession]
    /\ result = [p \in Invocations |-> NewResult(target_date)]
    /\ stages = [p \in Invocations |-> <<>>]
    /\ raised = [p \in Invocations |-> FALSE]
    /\ fault = [p \in Invocations |-> FALSE]
    /\ written = [p \in Invocations |-> {}]
    /\ runs = [p \in Invocations |-> 1]
    /\ store0 = store
    /\ last = NoRun

\* lines 87-124 of invocation p
ConcCompute(p) ==
    /\ pc[p] = "compute"
    /\ \E run \in {ComputeRecords(ohlcv_daily, symbols[p], target_date)} :
          /\ ohlcv_data' = [ohlcv_data EXCEPT ![p] = run.df]
          /\ universe_metrics' = [universe_metrics EXCEPT ![p] = run.umetrics]
          /\ all_metrics' = [all_metrics EXCEPT ![p] = run.records]
          /\ result' = [result EXCEPT ![p].errors = run.errors]
          /\ raised' = [raised EXCEPT ![p] = run.raised]
          /\ pc' = [pc EXCEPT ![p] = IF run.records # <<>> THEN "save" ELSE "done"]
    /\ i' = [i EXCEPT ![p] = 1]
    /\ stages' = [stages EXCEPT ![p] = <<"compute">>]
    /\ UNCHANGED <<ohlcv_daily, securities, store, target_date, symbols, counts,
                   session, store0, last, written, fault, runs>>

\* lines 925-942 of invocation p: one iteration of the upsert loop.  An
\* exception ends the invocation; closing its session discards what it holds.
ConcSaveRecord(p) ==
    /\ pc[p] = "save"
    /\ LET metrics == all_metrics[p][i[p]]
           key == <<metrics.symbol, target_date>>
       IN  IF key \in Keys(store)
           THEN /\ session' = [session EXCEPT ![p] =
                                 MarkDirty(@, UpdateRow(Loaded(store, @, key), metrics))]
                /\ counts' = [counts EXCEPT ![p] = CountUpdated(@)]
                /\ pc' = [pc EXCEPT ![p] =
                            IF i[p] < Len(all_metrics[p]) THEN "save" ELSE "commit"]
                /\ UNCHANGED <<result, raised>>
           ELSE IF ConstructorRaises(metrics)
           THEN /\ result' = [result EXCEPT ![p] = Failed(@)]
                /\ raised' = [raised EXCEPT ![p] = TRUE]
                /\ session' = [session EXCEPT ![p] = EmptySession]
                /\ pc' = [pc EXCEPT ![p] = "done"]
                /\ UNCHANGED counts
           ELSE /\ session' = [session EXCEPT ![p].new = Append(@, NewRow(metrics))]
                /\ counts' = [counts EXCEPT ![p] = CountInserted(@)]
                /\ pc' = [pc EXCEPT ![p] =
                            IF i[p] < Len(all_metrics[p]) THEN "save" ELSE "commit"]
                /\ UNCHANGED <<result, raised>>
    /\ i' = [i EXCEPT ![p] = @ + 1]
    /\ stages' = [stages EXCEPT ![p] = Append(@, "save")]
    /\ UNCHANGED <<ohlcv_daily, securities, store, target_date, symbols,
                   ohlcv_data, universe_metrics, all_metrics, store0, last,
                   written, fault, runs>>

\* lines 944-945 and 126-128 of invocation p: flush and COMMIT; a pending
\* row whose key has been committed meanwhile violates uq_metrics_symbol_date
ConcCommit(p) ==
    /\ pc[p] = "commit"
    /\ IF UniqueViolation(store, session[p])
       THEN /\ result' = [result EXCEPT ![p] = Failed(@)]
            /\ raised' = [raised EXCEPT ![p] = TRUE]
            /\ store' = RolledBack(store, session[p])
            /\ stages' = [stages EXCEPT ![p] = Append(@, "rollback")]
            /\ UNCHANGED written
       ELSE /\ store' = Flushed(store, session[p])
            /\ written' = [written EXCEPT ![p] =
                             session[p].dirty \cup SetOf(session[p].new)]
            /\ result' = [result EXCEPT ![p] = Succeeded(@, counts[p])]
            /\ stages' = [stages EXCEPT ![p] = Append(@, "commit")]
            /\ UNCHANGED raised
    /\ session' = [session EXCEPT ![p] = EmptySession]
    /\ pc' = [pc EXCEPT ![p] = "done"]
    /\ UNCHANGED <<ohlcv_daily, securities, target_date, symbols, ohlcv_data,
                   universe_metrics, all_metrics, i, counts, store0, last,
                   fault, runs>>

\* the caller invokes a failed invocation again, for the same date and
\* symbols, once both invocations have returned
ConcReinvoke(p) ==
    /\ \A q \in Invocations : pc[q] = "done"
    /\ ~result[p].success
    /\ runs[p] < MaxRuns
    /\ runs' = [runs EXCEPT ![p] = @ + 1]
    /\ fault' = [fault EXCEPT ![p] =
                    \E k \in 1..Len(stages[p]) : stages[p][k] = "save"]
    /\ pc' = [pc EXCEPT ![p] = "compute"]
    /\ ohlcv_data' = [ohlcv_data EXCEPT ![p] = fetch_ohlcv_data(<<>>, 0, 0)]
    /\ universe_metrics' = [universe_metrics EXCEPT ![p] = NULL]
    /\ all_metrics' = [all_metrics EXCEPT ![p] = <<>>]
    /\ i' = [i EXCEPT ![p] = 0]
    /\ counts' = [counts EXCEPT ![p] = [inserted |-> 0, updated |-> 0]]
    /\ result' = [result EXCEPT ![p] = NewResult(target_date)]
    /\ stages' = [stages EXCEPT ![p] = <<>>]
    /\ raised' = [raised EXCEPT ![p] = FALSE]
    /\ written' = [written EXCEPT ![p] = {}]
    /\ UNCHANGED <<ohlcv_daily, securities, store, target_date, symbols,
                   session, store0, last>>

ConcNext ==
    \E p \in Invocations :
        \/ ConcCompute(p)
        \/ ConcSaveRecord(p)
        \/ ConcCommit(p)
        \/ ConcReinvoke(p)

ConcSpec == ConcInit /\ [][ConcNext]_vars

(***************************************************************************)
(* The per-symbol engine alone: _calculate_symbol_metrics applied to the   *)
(* series of one symbol, for series of every shape and target dates up to  *)
(* the last day, with the breadth values of that one-symbol frame.         *)
(***************************************************************************)
Shapes ==
    {"up", "down", "zig", "flat", "coil", "peak", "rise", "risehi", "risewide",
     "edge"}

EngineProfiles ==
    [first : {1, 2, MinHistory \div 4 + 1}, skip : {0, FirstTarget - 51},
     shape : Shapes, volnull : BOOLEAN]

EngineDates == Dates \cup {FirstTarget + 49, LastDay}

EngineInit ==
    /\ ohlcv_daily \in {[s \in Symbols |-> p] : p \in EngineProfiles}
    /\ securities = Symbols
    /\ store = {}
    /\ pc = "engine"
    /\ target_date = NULL
    /\ symbols = <<>>
    /\ ohlcv_data = fetch_ohlcv_data(<<>>, 0, 0)
    /\ universe_metrics = NULL
    /\ all_metrics = <<>>
    /\ i = 0
    /\ counts = [inserted |-> 0, updated |-> 0]
    /\ session = EmptySession
    /\ result = NULL
    /\ stages = <<>>
    /\ store0 = store
    /\ last = NoRun
    /\ written = {}
    /\ fault = FALSE
    /\ raised = FALSE
    /\ runs = 0

\* lines 87-117 for one symbol: the load, the breadth pass and one call of
\* the engine; a returned record is kept in all_metrics
EngineCall(tdate, symbol) ==
    /\ pc = "engine"
    /\ target_date' = tdate
    /\ symbols' = <<symbol>>
    /\ \E df \in {fetch_ohlcv_data(<<symbol>>, tdate - (LookbackDays * 3) \div 2,
                                   tdate)} :
          /\ ohlcv_data' = df
          /\ \E umetrics \in {calculate_universe_metrics(ohlcv_daily, df, tdate)} :
                /\ universe_metrics' = umetrics
                /\ \E metrics \in {calculate_symbol_metrics(
                                        symbol, FrameRows(ohlcv_daily, df, symbol),
                                        tdate, umetrics)} :
                      /\ all_metrics' = IF metrics.kind = "record"
                                        THEN <<metrics.metrics>> ELSE <<>>
                      /\ raised' = (metrics = Raises)
    /\ pc' = "engine_done"
    /\ UNCHANGED <<ohlcv_daily, securities, store, i, counts, session, result,
                   stages, store0, last, written, fault, runs>>

EngineNext == \E tdate \in EngineDates : EngineCall(tdate, "A")

EngineSpec == EngineInit /\ [][EngineNext]_vars

(***************************************************************************)
(* Properties                                                              *)
(***************************************************************************)
AtReturn == pc = "return"

Has(seq, x) == \E k \in 1..Len(seq) : seq[k] = x

Count(seq, x) == Cardinality({k \in 1..Len(seq) : seq[k] = x})

\* the bars of symbol s that a run for tdate loads
Loadable(s, tdate) ==
    {d \in 1..LastDay : /\ HasBar(ohlcv_daily[s], d)
                        /\ d <= tdate
                        /\ d >= tdate - (LookbackDays * 3) \div 2}

\* s has its target-date bar and at least MinHistory bars before it
Qualifies(s, tdate) ==
    /\ tdate \in Loadable(s, tdate)
    /\ Cardinality(Loadable(s, tdate) \ {tdate}) >= MinHistory

\* record m is in the committed table
Persisted(m) ==
    \E r \in store :
        /\ KeyOf(r) = <<m.symbol, m.date>>
        /\ \A c \in RowColumns : r[c] = m[c]

\* the close of the bar a record was computed for
CloseOf(rec) == Close(ohlcv_daily[rec.symbol], rec.date)

\* the records the engine has produced
Produced == {all_metrics[j] : j \in 1..Len(all_metrics)}

C2_UniqueSymbolDate ==
    \A r1, r2 \in store : KeyOf(r1) = KeyOf(r2) => r1 = r2

C2_Witness ==
    /\ AtReturn
    /\ result.success
    /\ store # store0
    /\ Cardinality(store) >= 2

\* C3: a run whose upsert failed (while handling some record or at commit)
\* leaves the committed table as it was when the run began and reports
\* success = false with both counts 0.
C3_AllOrNothing ==
    (AtReturn /\ Has(stages, "save") /\ ~Has(stages, "commit"))
    => /\ store = store0
       /\ ~result.success
       /\ result.records_inserted = 0
       /\ result.records_updated = 0

C3_Witness ==
    /\ AtReturn
    /\ Has(stages, "rollback")
    /\ counts.updated >= 1
    /\ ~result.success

\* C4 (as claimed): for every symbol of a loaded frame, the engine returns
\* a record exactly when the target date is in the series with at least 200
\* bars before it.
C4_GateIff ==
    pc = "symbols" =>
        \A s \in ohlcv_data.symbols :
            (calculate_symbol_metrics(
                 s, FrameRows(ohlcv_daily, ohlcv_data, s), target_date,
                 universe_metrics).kind = "record")
            <=> Qualifies(s, target_date)

\* C5 (as claimed): when the per-symbol loop is over, every symbol of the
\* universe without a record has an entry in errors that names it.
C5_SkipsReported ==
    pc = "percentiles" =>
        \A k \in 1..Len(symbols) :
            (~\E j \in 1..Len(all_metrics) : all_metrics[j].symbol = symbols[k])
            => \E e \in 1..Len(result.errors) :
                   result.errors[e].symbol = symbols[k]

\* C6 (as claimed), for runs without a database error in which every symbol
\* of the universe already has its row for the target date: if some symbol
\* of the universe qualifies (and has volumes), the run ends with
\* success = true.
C6_BatchNotAborted ==
    (/\ AtReturn
     /\ ~fault
     /\ \A k \in 1..Len(symbols) : <<symbols[k], target_date>> \in Keys(store0)
     /\ \E k \in 1..Len(symbols) :
           /\ Qualifies(symbols[k], target_date)
           /\ ~ohlcv_daily[symbols[k]].volnull)
    => result.success

\* C7 (as claimed): the rows written by the runs that share a date carry the
\* same breadth and McClellan values.
C7_SharedBreadth ==
    \A r1, r2 \in store :
        (KeyOf(r1) \in written /\ KeyOf(r2) \in written /\ r1.date = r2.date)
        => /\ r1.universe_up_count = r2.universe_up_count
           /\ r1.universe_down_count = r2.universe_down_count
           /\ r1.mcclellan_oscillator = r2.mcclellan_oscillator
           /\ r1.mcclellan_summation = r2.mcclellan_summation

\* C8: a run returns success = true exactly when it produced at least one
\* record and committed the batch, whatever per-symbol errors it collected;
\* every record of a successful run is then in the table.
C8_SuccessIffPersisted ==
    AtReturn =>
        /\ result.success <=> (all_metrics # <<>> /\ Has(stages, "commit"))
        /\ result.success =>
              \A j \in 1..Len(all_metrics) : Persisted(all_metrics[j])

C8_Witness ==
    /\ AtReturn
    /\ result.success
    /\ result.errors # <<>>

\* C9: a run whose resolved universe is empty, or whose window holds no bar
\* of any symbol of the universe, returns success = false with an error,
\* runs neither the aggregator nor the engine nor the upsert, and leaves the
\* table unchanged.
C9_FailFast ==
    (AtReturn /\ \A k \in 1..Len(symbols) : Loadable(symbols[k], target_date) = {})
    => /\ ~result.success
       /\ result.errors # <<>>
       /\ \A k \in 1..Len(stages) : stages[k] = "fetch"
       /\ all_metrics = <<>>
       /\ store = store0

C9_Witness ==
    /\ AtReturn
    /\ symbols # <<>>
    /\ \A k \in 1..Len(symbols) : Loadable(symbols[k], target_date) = {}
    /\ stages = <<"fetch">>

\* the place of a stage in the pipeline
StageRank(x) ==
    CASE x = "fetch" -> 0
      [] x = "universe" -> 1
      [] x = "symbol" -> 2
      [] x = "percentiles" -> 3
      [] x = "save" -> 4
      [] OTHER -> 5

\* C10: within a run the breadth pass comes before the first per-symbol
\* iteration, the percentile pass after the last one, the upsert after the
\* percentile pass, and the table changes only by the one commit that ends
\* the upsert.
C10_PipelineOrder ==
    /\ \A k, l \in 1..Len(stages) :
          k < l => StageRank(stages[k]) <= StageRank(stages[l])
    /\ Count(stages, "universe") <= 1
    /\ Count(stages, "percentiles") <= 1
    /\ Count(stages, "commit") + Count(stages, "rollback") <= 1
    /\ Has(stages, "symbol") => Has(stages, "universe")
    /\ Has(stages, "percentiles") => Count(stages, "symbol") = Len(symbols)
    /\ Has(stages, "save") => Has(stages, "percentiles")
    /\ store # store0 => (stages # <<>> /\ stages[Len(stages)] = "commit")

C10_Witness ==
    /\ AtReturn
    /\ Len(symbols) >= 2
    /\ Count(stages, "save") >= 2
    /\ Has(stages, "commit")
    /\ store # store0

\* the keys of the result mapping
ResultKeys ==
    {"success", "target_date", "records_inserted", "records_updated", "errors"}

\* C11: the orchestrator never raises.  Whatever stage fails, control never
\* leaves calculate_metrics_for_date by an exception; the run ends after at
\* most one step per stage, symbol and record, and what it returns is the
\* result mapping with its five keys, which reports a raised exception as
\* success = false with a last errors entry for it.
C11_NeverRaises ==
    /\ pc \in {"idle", "fetch", "universe", "symbols", "percentiles", "save",
               "commit", "return"}
    /\ Len(stages) <= 2 * Len(symbols) + 4
    /\ pc # "idle" =>
          /\ DOMAIN result = ResultKeys
          /\ result.target_date = Str(target_date)
    /\ raised => /\ AtReturn
                 /\ ~result.success
                 /\ result.errors # <<>>
                 /\ result.errors[Len(result.errors)] = Error("failed", "")

C11_Witness ==
    /\ AtReturn
    /\ raised
    /\ ~fault
    /\ Len(result.errors) >= 2

\* C12 (as claimed): every field name of a produced record is a mapped
\* column of the entity, so that the constructor accepts the record, and
\* after a successful run the row of every record carries every field of
\* the record with the record's value.
C12_EveryFieldStored ==
    /\ pc = "save" =>
          \A j \in 1..Len(all_metrics) :
              /\ DOMAIN all_metrics[j] \subseteq MappedColumns
              /\ ~ConstructorRaises(all_metrics[j])
    /\ (AtReturn /\ result.success) =>
          \A j \in 1..Len(all_metrics) :
              \A f \in DOMAIN all_metrics[j] :
                  \E r \in store :
                      /\ KeyOf(r) = <<all_metrics[j].symbol, all_metrics[j].date>>
                      /\ f \in DOMAIN r
                      /\ r[f] = all_metrics[j][f]

\* close > ema_10 > sma_20 > sma_50 > sma_100 > sma_200 on the values of
\* record rec, none of the five being null
StrictChain(rec) ==
    /\ \A f \in {"ema_10", "sma_20", "sma_50", "sma_100", "sma_200"} : rec[f] # NULL
    /\ 100 * CloseOf(rec) > rec.ema_10
    /\ rec.ema_10 > rec.sma_20
    /\ rec.sma_20 > rec.sma_50
    /\ rec.sma_50 > rec.sma_100
    /\ rec.sma_100 > rec.sma_200

\* C13: for every produced record, is_ma_stacked = 1 implies the strict
\* chain close > ema_10 > sma_20 > sma_50 > sma_100 > sma_200 on the
\* record's own values, none of them null, and is_ma_stacked = 0 whenever
\* the chain does not hold.
C13_StackedConsistent ==
    \A rec \in Produced :
        /\ rec.is_ma_stacked = 1 => StrictChain(rec)
        /\ ~StrictChain(rec) => rec.is_ma_stacked = 0

C13_Witness ==
    /\ pc = "engine_done"
    /\ \E rec \in Produced : rec.is_ma_stacked = 1 /\ StrictChain(rec)

\* C14 (as claimed): for every produced record with an RSI, rsi_14 lies in
\* [0, 100], rsi_oversold = 1 exactly when the record's rsi_14 < 30,
\* rsi_overbought = 1 exactly when the record's rsi_14 > 70, and the two
\* flags are never both 1.
C14_RsiFlags ==
    \A rec \in Produced :
        rec.rsi_14 # NULL =>
            /\ 0 <= rec.rsi_14 /\ rec.rsi_14 <= 1000000
            /\ rec.rsi_oversold = 1 <=> rec.rsi_14 < 300000
            /\ rec.rsi_overbought = 1 <=> rec.rsi_14 > 700000
            /\ ~(rec.rsi_oversold = 1 /\ rec.rsi_overbought = 1)

\* the percentile pass has run and the records wait for the upsert
Ranking == pc = "save" /\ i = 1

\* C15 (as claimed): after the percentile pass every rs_percentile lies in
\* [0, 100], a record with a strictly larger 1-month change never has a
\* smaller percentile than one with a smaller change, and every record
\* with the highest 1-month change has the maximum percentile of the run.
C15_HighestHoldsMax ==
    Ranking =>
        \A j \in 1..Len(all_metrics) :
            /\ 0 <= all_metrics[j].rs_percentile
            /\ all_metrics[j].rs_percentile <= 10000
            /\ \A k \in 1..Len(all_metrics) :
                  all_metrics[j].change_1m_percent > all_metrics[k].change_1m_percent
                  => all_metrics[j].rs_percentile >= all_metrics[k].rs_percentile
            /\ (\A k \in 1..Len(all_metrics) :
                  all_metrics[k].change_1m_percent <= all_metrics[j].change_1m_percent)
               => \A k \in 1..Len(all_metrics) :
                      all_metrics[k].rs_percentile <= all_metrics[j].rs_percentile

\* C15 (amended): the range and the order as claimed; of the records with
\* the highest 1-month change, the one that comes last in the run has the
\* maximum percentile of the run.
C15_LastHighestHoldsMax ==
    Ranking =>
        \A j \in 1..Len(all_metrics) :
            /\ 0 <= all_metrics[j].rs_percentile
            /\ all_metrics[j].rs_percentile <= 10000
            /\ \A k \in 1..Len(all_metrics) :
                  all_metrics[j].change_1m_percent > all_metrics[k].change_1m_percent
                  => all_metrics[j].rs_percentile >= all_metrics[k].rs_percentile
            /\ (/\ \A k \in 1..Len(all_metrics) :
                      all_metrics[k].change_1m_percent <= all_metrics[j].change_1m_percent
                /\ \A k \in (j + 1)..Len(all_metrics) :
                      all_metrics[k].change_1m_percent < all_metrics[j].change_1m_percent)
               => \A k \in 1..Len(all_metrics) :
                      all_metrics[k].rs_percentile <= all_metrics[j].rs_percentile

C15_Witness ==
    /\ Ranking
    /\ Len(all_metrics) = 2
    /\ all_metrics[1].change_1m_percent > all_metrics[2].change_1m_percent
    /\ all_metrics[1].rs_percentile = 10000
    /\ all_metrics[2].rs_percentile = 0

\* C16: for every produced record whose Bollinger fields are not null,
\* bb_lower <= bb_middle <= bb_upper.
C16_BollingerOrder ==
    \A rec \in Produced :
        (rec.bb_lower # NULL /\ rec.bb_middle # NULL /\ rec.bb_upper # NULL)
        => (rec.bb_lower <= rec.bb_middle /\ rec.bb_middle <= rec.bb_upper)

C16_Witness ==
    /\ pc = "engine_done"
    /\ \E rec \in Produced :
          rec.bb_lower # NULL /\ rec.bb_lower < rec.bb_middle
                              /\ rec.bb_middle < rec.bb_upper

\* the engine was given the series of shape sh of symbol "A", without a
\* gap and with volumes, and has returned
Scenario(sh) ==
    /\ pc = "engine_done"
    /\ ohlcv_daily["A"].shape = sh
    /\ ohlcv_daily["A"].skip = 0
    /\ ~ohlcv_daily["A"].volnull

\* the flat series has 250 bars, the last on the target date
Flat250 ==
    /\ Scenario("flat")
    /\ ohlcv_daily["A"].first = 1
    /\ target_date = FirstTarget + 49

C18_FlatIndicators ==
    Flat250 =>
        /\ Produced # {}
        /\ \A rec \in Produced :
              /\ rec.atr_14 = 0
              /\ rec.adr_percent = 0
              /\ rec.rsi_14 = 1000000
              /\ rec.bb_bandwidth_percent = 0
              /\ rec.is_bb_squeeze = 1
              /\ rec.macd_line = 0
              /\ rec.macd_signal = 0
              /\ rec.macd_histogram = 0
              /\ rec.adx_14 = 0
              /\ rec.vcp_score = 0

\* the engine was given a series whose close rises by 1% a day, and has
\* returned
Rising ==
    \E sh \in {"rise", "risehi", "risewide"} : Scenario(sh)

DetailsOf(stage) ==
    CASE stage = 1 -> {"1"}
      [] stage = 2 -> {"2A", "2B", "2C"}
      [] stage = 3 -> {"3"}
      [] stage = 4 -> {"4"}
      [] OTHER -> {}

RowsOfRun ==
    {r \in store : r.date = target_date
                   /\ \E j \in 1..Len(all_metrics) : all_metrics[j].symbol = r.symbol}

\* the ranks an ascending order of the 1-month changes can give to change c:
\* at least the number of smaller changes, less than the number of changes
\* that are not larger
AscendingRanks(ms, c) ==
    Cardinality({k \in 1..Len(ms) : ms[k].change_1m_percent < c})
        .. (Cardinality({k \in 1..Len(ms) : ms[k].change_1m_percent <= c}) - 1)

\* C21: every produced record has a 1-month change, so that the percentile
\* pass counts all of them; after a successful run every row written by the
\* run carries rank/(N-1)*100 of an ascending rank of its 1-month change
\* (50 when N = 1), vars_score = percentile/adr_percent and
\* varw_score = (100 - percentile)/adr_percent when adr_percent > 0, and
\* both scores 0 otherwise.
C21_PercentilePassCoversAll ==
    /\ pc \in {"percentiles", "save", "commit"} =>
          \A j \in 1..Len(all_metrics) : all_metrics[j].change_1m_percent # NULL
    /\ (AtReturn /\ result.success) =>
          \A r \in RowsOfRun :
              /\ \E rank \in AscendingRanks(all_metrics, r.change_1m_percent) :
                    r.rs_percentile =
                        IF Len(all_metrics) > 1
                        THEN (rank * 10000) \div (Len(all_metrics) - 1)
                        ELSE 5000
              /\ IF r.adr_percent > 0
                 THEN /\ r.vars_score = (r.rs_percentile * 10000) \div r.adr_percent
                      /\ r.varw_score =
                             ((10000 - r.rs_percentile) * 10000) \div r.adr_percent
                 ELSE r.vars_score = 0 /\ r.varw_score = 0

C21_Witness ==
    /\ AtReturn
    /\ result.success
    /\ Len(all_metrics) = 2
    /\ \E r \in RowsOfRun :
          r.rs_percentile = 10000 /\ r.adr_percent > 0 /\ r.vars_score > 0
    /\ \E r \in RowsOfRun :
          /\ r.rs_percentile = 0
          /\ r.adr_percent = 0
          /\ r.vars_score = 0
          /\ r.varw_score = 0

\* C22 (as claimed): for every produced record, bb_middle equals sma_20.
C22_MiddleIsSma20 ==
    \A rec \in Produced : rec.bb_middle = rec.sma_20

\* the bars of a record's series at the target bar and the n - 1 before it
LastBars(rec, n) ==
    {Bar(rec.symbol, ohlcv_daily[rec.symbol], d) :
        d \in {e \in 1..rec.date :
                 /\ HasBar(ohlcv_daily[rec.symbol], e)
                 /\ Cardinality({f \in e..rec.date :
                                   HasBar(ohlcv_daily[rec.symbol], f)}) <= n}}

\* C23 (as claimed): for every produced record, darvas_20d_high is the
\* highest high and darvas_20d_low the lowest low of the 20 bars that end
\* with the target bar, and darvas_position_percent is
\* (close - low) / (high - low) * 100, or 50 when high = low.
C23_DarvasWindow20 ==
    \A rec \in Produced :
        LET box == LastBars(rec, 20)
            high == HighestOf({b.high : b \in box})
            low == MinOf({b.low : b \in box})
        IN  /\ rec.darvas_20d_high = high
            /\ rec.darvas_20d_low = low
            /\ rec.darvas_position_percent =
                   IF high > low
                   THEN ScaledDiv(CloseOf(rec) - low, high - low, 6)
                   ELSE 500000

\* C24 (as claimed): for every produced record, atr_extension_from_sma50
\* is null only when sma_50 or atr_14 is unavailable or atr_14 is zero (the
\* record then has no atr_14), and it is 0 when the close equals sma_50.
C24_AtrExtensionNullness ==
    \A rec \in Produced :
        /\ rec.atr_extension_from_sma50 = NULL
              => (rec.sma_50 = NULL \/ rec.atr_14 = NULL)
        /\ (rec.sma_50 = 100 * CloseOf(rec) /\ rec.atr_14 # NULL)
              => rec.atr_extension_from_sma50 = 0

\* the high-low range of the bar k positions before the target bar of rec
RangeBefore(rec, k) ==
    LET bars == LastBars(rec, k + 1) \ LastBars(rec, k)
        b == CHOOSE x \in bars : TRUE
    IN  b.high - b.low

\* C25 (as claimed): for every produced record, vcp_score is the number of
\* bars, counted back from the target bar within the last five, each of
\* which has a smaller range than the bar before it; the first bar that
\* does not narrow ends the count.
C25_VcpConsecutive ==
    \A rec \in Produced :
        /\ rec.vcp_score \in 0..5
        /\ \A n \in 0..4 :
              rec.vcp_score = n <=>
                  /\ \A k \in 0..(n - 1) : RangeBefore(rec, k) < RangeBefore(rec, k + 1)
                  /\ n < 4 => ~(RangeBefore(rec, n) < RangeBefore(rec, n + 1))

\* the ratio indicators of a record whose denominator is zero on a constant
\* series: the ATR (atr_percent, the extension, lod_atr_percent, di_plus,
\* di_minus), the width of the Darvas box, the average loss (rsi_14) and
\* the sum of the two directional indicators (adx_14)
ZeroDenominatorRatios(rec) ==
    {rec.atr_percent, rec.atr_extension_from_sma50, rec.lod_atr_percent,
     rec.di_plus, rec.di_minus, rec.darvas_position_percent, rec.rsi_14,
     rec.adx_14}

\* C26 (as claimed): the engine never raises on a zero or null denominator
\* (all volumes null: the denominator of rvol), and the ratio indicators of
\* a record of a constant series, whose denominators are zero, are resolved
\* by one convention: all to null or all to 0.
C26_UniformDivisionGuard ==
    /\ pc = "engine_done" => ~raised
    /\ \A rec \in Produced :
          ohlcv_daily[rec.symbol].shape = "flat" =>
              \/ ZeroDenominatorRatios(rec) = {NULL}
              \/ ZeroDenominatorRatios(rec) = {0}

\* symbol s has a record in this run
HasRecord(s) == \E j \in 1..Len(all_metrics) : all_metrics[j].symbol = s

\* C27: during and after a run no key of the table as the run found it is
\* missing, and a row the run found is changed only if its date is the
\* target date and its symbol has a record in this run.
C27_Frame ==
    pc # "idle" =>
        /\ Keys(store0) \subseteq Keys(store)
        /\ \A r \in store0 :
              r \notin store => (r.date = target_date /\ HasRecord(r.symbol))

C27_Witness ==
    /\ AtReturn
    /\ result.success
    /\ store # store0
    /\ \E r \in store0 \cap store : r.date # target_date /\ HasRecord(r.symbol)
    /\ \E r \in store0 \cap store :
          /\ r.date = target_date
          /\ r.symbol \in SetOf(symbols)
          /\ ~HasRecord(r.symbol)

\* C29 (as claimed): a run that returns success = false has a non-empty
\* errors list.
C29_FailureExplained ==
    (AtReturn /\ ~result.success) => result.errors # <<>>

\* the records of ms without the later records of a symbol that has one
\* already: what the run with the de-duplicated list gives to the
\* percentile pass
Deduplicated(ms) ==
    LET keep == {j \in 1..Len(ms) : \A k \in 1..(j - 1) : ms[k].symbol # ms[j].symbol}
    IN  [n \in 1..Cardinality(keep) |->
            ms[CHOOSE j \in keep : Cardinality({k \in keep : k <= j}) = n]]

\* the rows that the run with the de-duplicated list writes over the table
\* as this run found it
DeduplicatedRows ==
    LET ms == calculate_rs_percentiles(Deduplicated(all_metrics))
    IN  {UpdateRow(CHOOSE r \in store0 : KeyOf(r) = <<ms[j].symbol, target_date>>,
                   ms[j]) : j \in 1..Len(ms)}

\* C30 (as claimed): a successful run whose list names a symbol twice
\* reports as many inserts and updates together as it wrote rows, and the
\* rows it wrote are those the run with the de-duplicated list writes.
C30_RepeatedAsDeduplicated ==
    (AtReturn /\ result.success) =>
        /\ result.records_inserted + result.records_updated
               = Cardinality(RowsOfRun)
        /\ RowsOfRun = DeduplicatedRows

\* the keys of the records of invocation p
RecordKeys(p) ==
    {<<all_metrics[p][j].symbol, target_date>> : j \in 1..Len(all_metrics[p])}

\* C28 (as claimed): with two invocations for one date interleaved, the
\* table never holds two rows of one (symbol, date); an invocation that has
\* returned has committed a row for each of its records if it reports
\* success and no row otherwise; and an invocation whose attempt failed
\* inside the upsert succeeds when it is invoked again.
C28_ConcurrentRuns ==
    /\ \A r1, r2 \in store : KeyOf(r1) = KeyOf(r2) => r1 = r2
    /\ \A p \in Invocations :
          pc[p] = "done" =>
              /\ Keys(written[p]) = IF result[p].success THEN RecordKeys(p) ELSE {}
              /\ (runs[p] > 1 /\ fault[p]) => result[p].success

====
